---------------------------- MODULE Spec2Model ----------------------------
(***************************************************************************)
(* Model of the telecom IP curation programs.                              *)
(*                                                                         *)
(*   src/main.py      TelecomIPUpdater: fetch_ips_data, parse_telecom_ips, *)
(*                    extract_ip, is_valid_ip, save_ips_to_file, cleanup,  *)
(*                    run                                                  *)
(*   src/fetch_ip.py  fetch_telecom_ips (the table-only variant)           *)
(*                                                                         *)
(* A Python str is a sequence of characters; a character is a one-letter   *)
(* TLA+ string, and the two CJK characters of the keyword list are written *)
(* "U+7535" and "U+4FE1".  A Python list is a sequence.  None, where a str *)
(* is expected, is the empty sequence: the code only tests such values for *)
(* truthiness, and no regex match is empty.                                *)
(***************************************************************************)
EXTENDS Integers, Sequences, FiniteSets, TLC

VARIABLES
    prog,              \* which entry point this behaviour executes
    pc,                \* position inside the entry point
    page,              \* the document the site serves (RawDocument)
    telecom_keywords,  \* self.telecom_keywords
    driver,            \* self.driver: "None", "open" or "quit"
    html_content,      \* run(): html_content
    telecom_ips,       \* run(): telecom_ips / fetch_ip: ips
    parse_log,         \* what parse_telecom_ips did (its log lines)
    files,             \* the output files on disk
    io,                \* what the file writes of save_ips_to_file met
    success,           \* run(): success
    calls,             \* the calls made so far, in order
    ip,                \* is_valid_ip: the argument
    result             \* the value returned by the entry point

vars == <<prog, pc, page, telecom_keywords, driver, html_content, telecom_ips,
          parse_log, files, io, success, calls, ip, result>>

---------------------------------------------------------------------------
(* Characters and strings                                                  *)

Chars(t) == [i \in 1..Len(t) |-> SubSeq(t, i, i)]

DIAN == "U+7535"
XIN == "U+4FE1"

UpperLetters == Chars("ABCDEFGHIJKLMNOPQRSTUVWXYZ")
LowerLetters == Chars("abcdefghijklmnopqrstuvwxyz")
DigitChars == Chars("0123456789")

Range(s) == {s[i] : i \in 1..Len(s)}

Digits == Range(DigitChars)
Letters == Range(UpperLetters) \cup Range(LowerLetters)
Alphabet == Digits \cup Letters \cup {" ", ".", "_", DIAN, XIN}

IndexOf(s, c) == CHOOSE i \in 1..Len(s) : s[i] = c

\* ord(c): the code point, which is what str comparison orders by
CodePoint ==
    [c \in Alphabet |->
        IF c \in Digits THEN 47 + IndexOf(DigitChars, c)
        ELSE IF c \in Range(UpperLetters) THEN 64 + IndexOf(UpperLetters, c)
        ELSE IF c \in Range(LowerLetters) THEN 96 + IndexOf(LowerLetters, c)
        ELSE IF c = " " THEN 32
        ELSE IF c = "." THEN 46
        ELSE IF c = "_" THEN 95
        ELSE IF c = XIN THEN 20449
        ELSE 30005]

ord(c) == CodePoint[c]

\* [0-9] of the token pattern; str.isdigit on the characters modelled here
IsDigit(c) == c \in Digits

\* \w of a str pattern: letters of any script, digits and the underscore
IsWord(c) == c \in Digits \/ c \in Letters \/ c \in {"_", DIAN, XIN}

IsSpace(c) == c \in {" ", "\t", "\n", "\r"}

\* str.lower, one character
LowerMap ==
    [c \in Alphabet |->
        IF c \in Range(UpperLetters) THEN LowerLetters[IndexOf(UpperLetters, c)] ELSE c]

LowerChar(c) == LowerMap[c]

lower(t) == [i \in 1..Len(t) |-> LowerChar(t[i])]

\* str.strip()
RECURSIVE lstrip(_)
lstrip(t) == IF t # <<>> /\ IsSpace(Head(t)) THEN lstrip(Tail(t)) ELSE t

RECURSIVE rstrip(_)
rstrip(t) ==
    IF t # <<>> /\ IsSpace(t[Len(t)]) THEN rstrip(SubSeq(t, 1, Len(t) - 1)) ELSE t

strip(t) == rstrip(lstrip(t))

\* k in t
Contains(t, k) ==
    \E i \in 1..(Len(t) - Len(k) + 1) : SubSeq(t, i, i + Len(k) - 1) = k

startswith(t, p) == Len(p) <= Len(t) /\ SubSeq(t, 1, Len(p)) = p

\* ip.split('.')
RECURSIVE split(_)
split(t) ==
    LET dots == {i \in 1..Len(t) : t[i] = "."}
    IN  IF dots = {} THEN <<t>>
        ELSE LET d == CHOOSE i \in dots : \A j \in dots : i <= j
             IN  <<SubSeq(t, 1, d - 1)>> \o split(SubSeq(t, d + 1, Len(t)))

\* part.isdigit(): non-empty and all digits
isdigit(t) == Len(t) > 0 /\ \A i \in 1..Len(t) : IsDigit(t[i])

\* int(part) of a digit string
RECURSIVE int(_)
int(t) ==
    IF Len(t) = 0 THEN 0
    ELSE 10 * int(SubSeq(t, 1, Len(t) - 1)) + (ord(t[Len(t)]) - 48)

\* a < b on str: by code point, a proper prefix first
RECURSIVE StrLess(_, _)
StrLess(a, b) ==
    IF Len(b) = 0 THEN FALSE
    ELSE IF Len(a) = 0 THEN TRUE
    ELSE IF a[1] # b[1] THEN ord(a[1]) < ord(b[1])
    ELSE StrLess(Tail(a), Tail(b))

\* sorted(set(xs)) / sorted(list(set(xs)))
RECURSIVE SortSet(_)
SortSet(S) ==
    IF S = {} THEN <<>>
    ELSE LET m == CHOOSE x \in S : \A y \in S \ {x} : StrLess(x, y)
         IN  <<m>> \o SortSet(S \ {m})

sorted_set(xs) == SortSet(Range(xs))

---------------------------------------------------------------------------
(* The token pattern  \b(?:[0-9]{1,3}\.){3}[0-9]{1,3}\b                    *)

CharAt(t, p) == IF p >= 1 /\ p <= Len(t) THEN t[p] ELSE " "

\* \b between positions p-1 and p
Boundary(t, p) == IsWord(CharAt(t, p - 1)) # IsWord(CharAt(t, p))

\* k digits (k in 1..3) stand at positions i .. i+k-1
DigitsAt(t, i, k) ==
    /\ IsDigit(CharAt(t, i))
    /\ k < 2 \/ IsDigit(CharAt(t, i + 1))
    /\ k < 3 \/ IsDigit(CharAt(t, i + 2))

\* Groups n..4 of the pattern matched from position i: the position after the
\* match, or 0.  [0-9]{1,3} is greedy: three digits are tried first, then two,
\* then one, and the first length the rest of the pattern accepts is taken.
RECURSIVE MatchGroups(_, _, _)
TryGroup(t, i, n, k) ==
    IF ~DigitsAt(t, i, k) THEN 0
    ELSE IF n = 4 THEN (IF Boundary(t, i + k) THEN i + k ELSE 0)
    ELSE IF CharAt(t, i + k) = "." THEN MatchGroups(t, i + k + 1, n + 1)
    ELSE 0

MatchGroups(t, i, n) ==
    LET e3 == TryGroup(t, i, n, 3)
    IN  IF e3 # 0 THEN e3
        ELSE LET e2 == TryGroup(t, i, n, 2)
             IN  IF e2 # 0 THEN e2 ELSE TryGroup(t, i, n, 1)

\* a match starts with a digit that a non-word character (or nothing) precedes
MatchAt(t, i) ==
    IF IsDigit(CharAt(t, i)) /\ Boundary(t, i) THEN MatchGroups(t, i, 1) ELSE 0

\* the positions at which the pattern matches
MatchStarts(t) == {i \in 1..Len(t) : MatchAt(t, i) # 0}

Min(S) == CHOOSE x \in S : \A y \in S : x <= y

\* re.search(pattern, text): the leftmost match, <<>> for no match
re_search(t) ==
    LET starts == MatchStarts(t)
    IN  IF starts = {} THEN <<>>
        ELSE SubSeq(t, Min(starts), MatchAt(t, Min(starts)) - 1)

\* re.findall(pattern, text): the leftmost match, then the leftmost match that
\* starts at or after its end, and so on
RECURSIVE FindFrom(_, _, _)
FindFrom(t, starts, from) ==
    LET rest == {i \in starts : i >= from}
    IN  IF rest = {} THEN <<>>
        ELSE LET e == MatchAt(t, Min(rest))
             IN  <<SubSeq(t, Min(rest), e - 1)>> \o FindFrom(t, rest, e)

re_findall(t) == FindFrom(t, MatchStarts(t), 1)

---------------------------------------------------------------------------
(* TelecomIPUpdater.is_valid_ip and extract_ip                             *)

Broadcast == Chars("255.255.255.255")

is_valid_ip(s) ==
    LET parts == split(s)
    IN  /\ Len(parts) = 4
        /\ \A i \in 1..4 : isdigit(parts[i]) /\ int(parts[i]) >= 0 /\ int(parts[i]) <= 255
        /\ ~(startswith(s, <<"0", ".">>) \/ startswith(s, <<"1", "2", "7", ".">>)
             \/ startswith(s, <<"1", "6", "9", ".", "2", "5", "4", ".">>))
        /\ s # Broadcast

\* extract_ip with the validator left out: the first match is returned as it is
extract_ip_unchecked(text) == re_search(text)

extract_ip(text) ==
    LET m == re_search(text)
    IN  IF m # <<>> /\ is_valid_ip(m) THEN m ELSE <<>>

---------------------------------------------------------------------------
(* Documents.  A page is a table of rows, each row a sequence of cells     *)
(* (tag td or th, one text node), followed by a sequence of blocks (tag    *)
(* li, div, p or script, one text node).                                   *)

None == [none |-> TRUE]

\* the str ''
EmptyString == [empty |-> TRUE]

Cell(tag, s) == [tag |-> tag, text |-> Chars(s)]
Block(tag, s) == [tag |-> tag, text |-> Chars(s)]

MaxRows == 2
MaxBlocks == 1

RowPool ==
    { <<Cell("td", "CarrierX"), Cell("td", "1.2.3.4")>>,
      <<Cell("td", "OtherCarrier"), Cell("td", " 5.6.7.8 ")>>,
      <<[tag |-> "td", text |-> <<DIAN, XIN>>], Cell("td", "127.0.0.1")>>,
      <<[tag |-> "td", text |-> <<DIAN, XIN>>], Cell("td", " 9.9.9.9 "), Cell("td", " 10.0.0.1 ")>>,
      <<Cell("th", "telecom"), Cell("td", " 3.3.3.3 2.2.2.2 "), Cell("td", " 4.4.4.4 "),
        Cell("td", " 6.6.6.6 "), Cell("td", " 7.7.7.7 "), Cell("td", " 9.9.9.9 ")>> }

BlockPool ==
    { Block("p", "CarrierX 9.9.9.9 10.10.10.10"),
      Block("li", "chntel 0.1.2.3 4.4.4.4"),
      Block("script", " 6.6.6.6 ") }

SeqsUpTo(S, n) == UNION {[1..k -> S] : k \in 0..n}

Docs == {[rows |-> r, blocks |-> b] : r \in SeqsUpTo(RowPool, MaxRows),
                                      b \in SeqsUpTo(BlockPool, MaxBlocks)}

\* a page without a row or a block, as the page_source of a blank page
\* "<html><head></head><body></body></html>": a non-empty string
EmptyDoc == [rows |-> <<>>, blocks |-> <<>>]

\* self.telecom_keywords as __init__ sets it
SourceKeywords ==
    << <<DIAN, XIN>>, Chars("China Telecom"), Chars("CT"), Chars("telecom"),
       Chars("chntel") >>

\* the keyword lists a run is configured with
KeywordSets == {SourceKeywords, <<Chars("CarrierX")>>}

RECURSIVE Concat(_)
Concat(ts) == IF ts = <<>> THEN <<>> ELSE Head(ts) \o Concat(Tail(ts))

\* for script in soup(["script", "style"]): script.decompose()
decompose(doc) ==
    [doc EXCEPT !.blocks = SelectSeq(doc.blocks, LAMBDA b : b.tag \notin {"script", "style"})]

\* soup.get_text(): every text node, in document order, nothing between them
get_text(soup) ==
    Concat([i \in 1..Len(soup.rows) |->
              Concat([j \in 1..Len(soup.rows[i]) |-> soup.rows[i][j].text])])
    \o Concat([i \in 1..Len(soup.blocks) |-> soup.blocks[i].text])

\* [cell.get_text(strip=True) for cell in row.find_all(['td', 'th'])]
cell_texts(row) ==
    LET cells == SelectSeq(row, LAMBDA c : c.tag \in {"td", "th"})
    IN  [j \in 1..Len(cells) |-> strip(cells[j].text)]

\* any(keyword.lower() in text.lower() for keyword in self.telecom_keywords)
has_keyword(text, kws) ==
    LET low == lower(text)
    IN  \E n \in 1..Len(kws) : Contains(low, lower(kws[n]))

is_telecom(texts, kws) == \E j \in 1..Len(texts) : has_keyword(texts[j], kws)

\* if ip and ip not in telecom_ips: telecom_ips.append(ip)
append_new(acc, x) == IF x # <<>> /\ x \notin Range(acc) THEN Append(acc, x) ELSE acc

RECURSIVE extract_each(_, _)
extract_each(texts, acc) ==
    IF texts = <<>> THEN acc
    ELSE extract_each(Tail(texts), append_new(acc, extract_ip(Head(texts))))

\* method 1: the rows of every table
RECURSIVE table_rows(_, _, _)
table_rows(rows, kws, acc) ==
    IF rows = <<>> THEN acc
    ELSE LET texts == cell_texts(Head(rows))
         IN  table_rows(Tail(rows), kws,
                        IF is_telecom(texts, kws) THEN extract_each(texts, acc) ELSE acc)

\* method 2: li, div and p elements
RECURSIVE list_items(_, _, _)
list_items(items, kws, acc) ==
    IF items = <<>> THEN acc
    ELSE LET item_text == strip(Head(items).text)
         IN  list_items(Tail(items), kws,
                        IF has_keyword(item_text, kws)
                        THEN append_new(acc, extract_ip(item_text)) ELSE acc)

MinYield == 5

\* if len(telecom_ips) < 5
needs_full_text(acc) == Len(acc) < MinYield

RECURSIVE append_valid(_, _)
append_valid(all_ips, acc) ==
    IF all_ips = <<>> THEN acc
    ELSE append_valid(Tail(all_ips),
                      IF is_valid_ip(Head(all_ips)) /\ Head(all_ips) \notin Range(acc)
                      THEN Append(acc, Head(all_ips)) ELSE acc)

\* method 3: every token of the page text
full_text(soup, acc) == append_valid(re_findall(get_text(soup)), acc)

\* the curation step left out: the list stays in the order of discovery
curate_first_seen(acc) == acc

\* telecom_ips = sorted(list(set(telecom_ips)))
curate(acc) == sorted_set(acc)

NoLog == [called |-> FALSE]

\* parse_telecom_ips(html_content).  raises: the structural parse fails inside
\* the try block (html.parser rejects the markup, as it does for an unknown
\* marked section such as "<![x["), and the function's one except clause
\* returns [].  Any page may carry such markup, so the action chooses.
\* Returns the list and what the function logged.
parse_telecom_ips(html, kws, raises) ==
    IF raises
    THEN [ips |-> <<>>, log |-> [called |-> TRUE, raised |-> TRUE]]
    ELSE LET soup == decompose(html)
             m1 == table_rows(soup.rows, kws, <<>>)
             m2 == list_items(SelectSeq(soup.blocks,
                                        LAMBDA b : b.tag \in {"li", "div", "p"}), kws, m1)
             fb == needs_full_text(m2)
             m3 == IF fb THEN full_text(soup, m2) ELSE m2
         IN  [ips |-> curate(m3),
              log |-> [called |-> TRUE, raised |-> FALSE, labeled |-> m2,
                       full_text |-> fb]]

---------------------------------------------------------------------------
(* fetch_ip.fetch_telecom_ips: the table-only variant                      *)

\* rows whose first td is the carrier label contribute their second td
RECURSIVE label_rows(_, _)
label_rows(rows, acc) ==
    IF rows = <<>> THEN acc
    ELSE LET cols == SelectSeq(Head(rows), LAMBDA c : c.tag = "td")
         IN  label_rows(Tail(rows),
                        IF Len(cols) >= 2 /\ strip(cols[1].text) = <<DIAN, XIN>>
                        THEN Append(acc, strip(cols[2].text)) ELSE acc)

\* ips = sorted(set(ips))
fetch_telecom_ips(doc) == sorted_set(label_rows(doc.rows, <<>>))

---------------------------------------------------------------------------
(* TelecomIPUpdater: fetch_ips_data, save_ips_to_file, cleanup             *)

\* "not html_content": None or the empty string
Falsy(h) == h = None \/ h = EmptyString

FetchOutcomes == {"no_driver", "no_page", "empty_source", "page"}

\* fetch_ips_data(): the WebDriver cannot be started, the page cannot be
\* loaded (an exception or a timeout), or driver.page_source is returned,
\* which is the served page or, from a browser that has nothing, ''
fetch_ips_data(outcome, served) ==
    [driver |-> IF outcome = "no_driver" THEN "None" ELSE "open",
     html   |-> CASE outcome = "page" -> served
                  [] outcome = "empty_source" -> EmptyString
                  [] OTHER -> None]

\* for ip in ips: f.write(f"{ip}\n")
RECURSIVE file_text(_)
file_text(ips) ==
    IF ips = <<>> THEN <<>> ELSE Head(ips) \o <<"\n">> \o file_text(Tail(ips))

\* "\n".join(ips)
RECURSIVE join(_)
join(ips) ==
    IF ips = <<>> THEN <<>>
    ELSE IF Len(ips) = 1 THEN Head(ips)
    ELSE Head(ips) \o <<"\n">> \o join(Tail(ips))

\* the lines of a file's text (str.splitlines); files are held as their lines
RECURSIVE splitlines(_, _)
splitlines(text, line) ==
    IF text = <<>> THEN (IF line = <<>> THEN <<>> ELSE <<line>>)
    ELSE IF Head(text) = "\n" THEN <<line>> \o splitlines(Tail(text), <<>>)
    ELSE splitlines(Tail(text), Append(line, Head(text)))

\* what a file holds when a write fails after open(..., 'w') truncated it
\* (full disk, quota, size limit): the first cut characters, fewer than all
Cuts(text) == 0..(Len(text) - 1)

truncated(text, cut) == splitlines(SubSeq(text, 1, cut), <<>>)

\* a json file cut short (empty, or a proper prefix of the object) does not parse
Unparsable == [unparsable |-> TRUE]

\* how a call of save_ips_to_file(ips) can go: both files written; open of
\* the first or of the second file fails; a write to the first or to the
\* second file fails after the open emptied it
SaveOutcomes(ips) ==
    {[kind |-> k, cut |-> 0] :
        k \in {"written", "txt_open_error", "json_open_error", "json_write_error"}}
    \cup {[kind |-> "txt_write_error", cut |-> c] : c \in Cuts(file_text(ips))}

\* what an earlier run left on disk
OldFiles ==
    [txt |-> <<Chars("198.51.100.7")>>,
     json |-> [total_ips |-> 1, ips |-> <<Chars("198.51.100.7")>>],
     china |-> <<Chars("198.51.100.7")>>]

\* save_ips_to_file refusing an empty list: False, and nothing is written
save_refuses_empty(ips, disk, outcome) ==
    [ok    |-> outcome.kind = "written" /\ ips # <<>>,
     files |-> IF ips = <<>> THEN disk
               ELSE [disk EXCEPT
                       !.txt = CASE outcome.kind = "txt_open_error" -> @
                                 [] outcome.kind = "txt_write_error" ->
                                        truncated(file_text(ips), outcome.cut)
                                 [] OTHER -> splitlines(file_text(ips), <<>>),
                       !.json = CASE outcome.kind = "written" ->
                                        [total_ips |-> Len(ips), ips |-> ips]
                                  [] outcome.kind = "json_write_error" -> Unparsable
                                  [] OTHER -> @]]

\* save_ips_to_file(ips): both files written and True, or an I/O error caught
\* and False.  The error leaves the first file as it was (its open failed) or
\* cut short (a write failed), and then the second file untouched; or the
\* first file written and the second as it was or cut short.  The json fields
\* update_time, timezone and source are not kept.
save_ips_to_file(ips, disk, outcome) ==
    [ok    |-> outcome.kind = "written",
     files |-> [disk EXCEPT
                  !.txt = CASE outcome.kind = "txt_open_error" -> @
                            [] outcome.kind = "txt_write_error" ->
                                   truncated(file_text(ips), outcome.cut)
                            [] OTHER -> splitlines(file_text(ips), <<>>),
                  !.json = CASE outcome.kind = "written" ->
                                   [total_ips |-> Len(ips), ips |-> ips]
                             [] outcome.kind = "json_write_error" -> Unparsable
                             [] OTHER -> @]]

\* cleanup(): if self.driver: self.driver.quit()
cleanup(drv) == IF drv = "open" THEN "quit" ELSE drv

---------------------------------------------------------------------------
(* Inputs                                                                  *)

\* the digit groups tokens are built from
Groups ==
    {Chars("0"), Chars("00"), Chars("1"), Chars("9"), Chars("127"), Chars("169"),
     Chars("254"), Chars("255"), Chars("256")}

Tokens ==
    {a \o <<".">> \o b \o <<".">> \o c \o <<".">> \o d :
        a \in Groups, b \in Groups, c \in Groups, d \in Groups}

Init ==
    /\ prog \in {"main", "fetch_ip", "is_valid_ip"}
    /\ pc = "start"
    /\ page \in IF prog = "is_valid_ip" THEN {EmptyDoc} ELSE Docs
    /\ telecom_keywords \in IF prog = "main" THEN KeywordSets ELSE {SourceKeywords}
    /\ ip \in IF prog = "is_valid_ip" THEN Tokens ELSE {<<>>}
    /\ driver = "None"
    /\ html_content = None
    /\ telecom_ips = <<>>
    /\ parse_log = NoLog
    /\ files = OldFiles
    /\ io = "none"
    /\ success = FALSE
    /\ calls = <<>>
    /\ result = None

---------------------------------------------------------------------------
(* run(), one action per call it makes                                     *)

\* RunFetch with the early "return False" outside the try/finally: no cleanup
RunFetchLeavesAtOnce ==
    /\ prog = "main" /\ pc = "start"
    /\ \E outcome \in FetchOutcomes :
         LET f == fetch_ips_data(outcome, page)
         IN  /\ driver' = f.driver
             /\ html_content' = f.html
             /\ pc' = IF Falsy(f.html) THEN "returned" ELSE "parse"
             /\ result' = IF Falsy(f.html) THEN FALSE ELSE result
    /\ calls' = Append(calls, "fetch_ips_data")
    /\ UNCHANGED <<prog, page, telecom_keywords, telecom_ips, parse_log, files,
                   io, success, ip>>

\* html_content = self.fetch_ips_data(); if not html_content: return False
RunFetch ==
    /\ prog = "main" /\ pc = "start"
    /\ \E outcome \in FetchOutcomes :
         LET f == fetch_ips_data(outcome, page)
         IN  /\ driver' = f.driver
             /\ html_content' = f.html
             /\ pc' = IF Falsy(f.html) THEN "finally_return" ELSE "parse"
    /\ calls' = Append(calls, "fetch_ips_data")
    /\ UNCHANGED <<prog, page, telecom_keywords, telecom_ips, parse_log, files,
                   io, success, ip, result>>

\* telecom_ips = self.parse_telecom_ips(html_content)
RunParse ==
    /\ prog = "main" /\ pc = "parse"
    /\ \E raises \in BOOLEAN :
         LET r == parse_telecom_ips(html_content, telecom_keywords, raises)
         IN  /\ telecom_ips' = r.ips
             /\ parse_log' = r.log
    /\ calls' = Append(calls, "parse_telecom_ips")
    /\ pc' = "save"
    /\ UNCHANGED <<prog, page, telecom_keywords, driver, html_content, files,
                   io, success, ip, result>>

\* success = self.save_ips_to_file(telecom_ips)
RunSave ==
    /\ prog = "main" /\ pc = "save"
    /\ \E outcome \in SaveOutcomes(telecom_ips) :
         LET r == save_ips_to_file(telecom_ips, files, outcome)
         IN  /\ files' = r.files
             /\ success' = r.ok
             /\ io' = outcome.kind
    /\ calls' = Append(calls, "save_ips_to_file")
    /\ pc' = "finally"
    /\ UNCHANGED <<prog, page, telecom_keywords, driver, html_content,
                   telecom_ips, parse_log, ip, result>>

\* finally: self.cleanup(); then the pending "return False" or "return success"
RunFinally ==
    /\ prog = "main" /\ pc \in {"finally", "finally_return"}
    /\ driver' = cleanup(driver)
    /\ calls' = Append(calls, "cleanup")
    /\ result' = IF pc = "finally_return" THEN FALSE ELSE success
    /\ pc' = "returned"
    /\ UNCHANGED <<prog, page, telecom_keywords, html_content, telecom_ips,
                   parse_log, files, io, success, ip>>

\* fetch_ip.py: the request, the parse or the open of the file raises
\* (nothing is written); or the write raises after the open emptied
\* china_telecom_ips.txt, which is left cut short; or the file is written.
\* No exception is caught.
FetchIp ==
    /\ prog = "fetch_ip" /\ pc = "start"
    /\ LET ips == fetch_telecom_ips(page)
       IN  \/ /\ UNCHANGED <<telecom_ips, files>>
              /\ pc' = "raised"
           \/ /\ \E cut \in Cuts(join(ips)) :
                    files' = [files EXCEPT !.china = truncated(join(ips), cut)]
              /\ telecom_ips' = ips
              /\ pc' = "raised"
           \/ /\ telecom_ips' = ips
              /\ files' = [files EXCEPT !.china = splitlines(join(ips), <<>>)]
              /\ pc' = "returned"
    /\ calls' = Append(calls, "fetch_telecom_ips")
    /\ UNCHANGED <<prog, page, telecom_keywords, driver, html_content, parse_log,
                   io, success, ip, result>>

\* a call of is_valid_ip(ip)
CheckIp ==
    /\ prog = "is_valid_ip" /\ pc = "start"
    /\ result' = is_valid_ip(ip)
    /\ calls' = Append(calls, "is_valid_ip")
    /\ pc' = "returned"
    /\ UNCHANGED <<prog, page, telecom_keywords, driver, html_content, telecom_ips,
                   parse_log, files, io, success, ip>>

Next == RunFetch \/ RunParse \/ RunSave \/ RunFinally \/ FetchIp \/ CheckIp

Spec == Init /\ [][Next]_vars

---------------------------------------------------------------------------
(* Vocabulary of the properties                                            *)

\* parse_telecom_ips has just returned to run(), with a list or, from its
\* except clause, with []
ParseReturned == prog = "main" /\ pc = "save" /\ parse_log.called

ParseCompleted == ParseReturned /\ ~parse_log.raised

\* four dot-separated groups of 1-3 decimal digits
LooksLikeIPv4(s) ==
    /\ Len(split(s)) = 4
    /\ \A i \in 1..4 : isdigit(split(s)[i]) /\ Len(split(s)[i]) <= 3

Octet(s, i) == int(split(s)[i])

\* a usable address: every octet in [0,255], outside 0.0.0.0/8, 127.0.0.0/8
\* and 169.254.0.0/16, and not 255.255.255.255
Usable(s) ==
    /\ LooksLikeIPv4(s)
    /\ \A i \in 1..4 : Octet(s, i) >= 0 /\ Octet(s, i) <= 255
    /\ Octet(s, 1) # 0
    /\ Octet(s, 1) # 127
    /\ ~(Octet(s, 1) = 169 /\ Octet(s, 2) = 254)
    /\ ~(\A i \in 1..4 : Octet(s, i) = 255)

StrictlyAscending(xs) == \A i \in 1..(Len(xs) - 1) : StrLess(xs[i], xs[i + 1])

\* the texts of the units labeled with a carrier keyword: the cells of a table
\* row one of whose cells holds a keyword, and the li/div/p blocks that hold one
LabeledTexts(soup, kws) ==
    UNION {Range(cell_texts(soup.rows[i])) :
             i \in {n \in 1..Len(soup.rows) : is_telecom(cell_texts(soup.rows[n]), kws)}}
    \cup {strip(soup.blocks[i].text) :
             i \in {n \in 1..Len(soup.blocks) :
                      /\ soup.blocks[n].tag \in {"li", "div", "p"}
                      /\ has_keyword(strip(soup.blocks[n].text), kws)}}

\* the validator-accepted tokens of a text
ValidTokens(text) == {x \in Range(re_findall(text)) : is_valid_ip(x)}

\* every token of a document, of a cell, of a block or of the whole text
AllTokens(doc) ==
    UNION {Range(re_findall(c.text)) : c \in UNION {Range(doc.rows[i]) : i \in 1..Len(doc.rows)}}
    \cup UNION {Range(re_findall(doc.blocks[i].text)) : i \in 1..Len(doc.blocks)}
    \cup Range(re_findall(get_text(doc)))

---------------------------------------------------------------------------
(* C1: for a token of four groups of 1-3 digits, is_valid_ip returns True   *)
(* exactly when every group is in [0,255] and the address is outside       *)
(* 0.0.0.0/8, 127.0.0.0/8, 169.254.0.0/16 and is not 255.255.255.255.      *)
C1_ValidatorAcceptsExactlyUsable ==
    (prog = "is_valid_ip" /\ pc = "returned" /\ LooksLikeIPv4(ip))
        => (result <=> Usable(ip))

(* C2: every address parse_telecom_ips returns is accepted by is_valid_ip, *)
(* whichever of the three methods contributed it.                          *)
C2_ReturnedAddressesValid ==
    ParseReturned => \A i \in 1..Len(telecom_ips) : is_valid_ip(telecom_ips[i])

\* the full-text scan added to what the labeled units gave, and the page
\* holds a token the validator rejects
C2_Witness ==
    /\ ParseCompleted /\ pc = "save"
    /\ parse_log.labeled # <<>>
    /\ parse_log.full_text
    /\ Len(telecom_ips) > Len(parse_log.labeled)
    /\ \E x \in AllTokens(html_content) : ~is_valid_ip(x)

(* C3: the list parse_telecom_ips returns, and the list fetch_ip writes,   *)
(* is strictly ascending in string order (sorted, no duplicates), and the  *)
(* dedup-and-sort step leaves it unchanged.                                *)
C3_ListStrictlyAscending ==
    /\ ParseReturned =>
          StrictlyAscending(telecom_ips) /\ sorted_set(telecom_ips) = telecom_ips
    /\ (prog = "fetch_ip" /\ pc = "returned") =>
          /\ StrictlyAscending(telecom_ips)
          /\ sorted_set(telecom_ips) = telecom_ips
          /\ files.china = splitlines(join(telecom_ips), <<>>)

\* the labeled units gave the addresses in another order than the sorted one
C3_Witness ==
    /\ ParseCompleted /\ pc = "save"
    /\ Len(parse_log.labeled) >= 2
    /\ ~StrictlyAscending(parse_log.labeled)
    /\ Len(telecom_ips) >= 2

(* C4: Scenario A.  One row with the cells CarrierX, 1.2.3.4 and one row   *)
(* with the cells OtherCarrier, 5.6.7.8, keywords {CarrierX}: the returned *)
(* list is exactly [1.2.3.4].                                              *)
ScenarioA(doc) ==
    /\ doc.blocks = <<>>
    /\ Len(doc.rows) = 2
    /\ cell_texts(doc.rows[1]) = <<Chars("CarrierX"), Chars("1.2.3.4")>>
    /\ cell_texts(doc.rows[2]) = <<Chars("OtherCarrier"), Chars("5.6.7.8")>>

C4_ScenarioA ==
    (ParseCompleted /\ pc = "save" /\ telecom_keywords = <<Chars("CarrierX")>>
        /\ ScenarioA(html_content))
        => telecom_ips = <<Chars("1.2.3.4")>>

(* C5: the full-text scan runs exactly when the labeled rows and blocks    *)
(* gave fewer than 5 addresses; with 5 or more, every returned address is  *)
(* a token of a labeled unit; with fewer, every validator-accepted token   *)
(* of the page text is returned.  A parse that raised collected nothing    *)
(* and ran no scan.                                                        *)
C5_FullTextBelowThreshold ==
    ParseReturned =>
        LET soup == decompose(html_content)
            yield == IF parse_log.raised THEN 0 ELSE Len(parse_log.labeled)
            scanned == IF parse_log.raised THEN FALSE ELSE parse_log.full_text
        IN  /\ scanned <=> yield < 5
            /\ yield >= 5 =>
                  \A x \in Range(telecom_ips) :
                      \E u \in LabeledTexts(soup, telecom_keywords) :
                          x \in Range(re_findall(u))
            /\ yield < 5 => ValidTokens(get_text(soup)) \subseteq Range(telecom_ips)

(* C6: every validator-accepted token of a cell of a labeled row, and of a *)
(* labeled li/div/p block, is in the returned list.                        *)
C6_EveryTokenOfLabeledUnits ==
    (ParseCompleted /\ pc = "save") =>
        \A u \in LabeledTexts(decompose(html_content), telecom_keywords) :
            ValidTokens(u) \subseteq Range(telecom_ips)

(* C7: when the table method fails, the labeled-text method and the        *)
(* full-text scan still run, and what they find is returned.               *)
C7_TableFailureKeepsOtherMethods ==
    (ParseReturned /\ pc = "save" /\ parse_log.raised /\ html_content.rows # <<>>) =>
        LET soup == decompose(html_content)
            m2 == list_items(SelectSeq(soup.blocks,
                                       LAMBDA b : b.tag \in {"li", "div", "p"}),
                             telecom_keywords, <<>>)
            m3 == IF needs_full_text(m2) THEN full_text(soup, m2) ELSE m2
        IN  Range(m3) \subseteq Range(telecom_ips)

(* C8: a fetched document none of whose tokens validates gives the empty   *)
(* list, which run() saves: run() returns what the save returned, True     *)
(* when the files were written.                                            *)
NoTokenValidates(doc) ==
    /\ \A i \in 1..Len(doc.rows) : \A j \in 1..Len(doc.rows[i]) :
          ValidTokens(doc.rows[i][j].text) = {}
    /\ \A i \in 1..Len(doc.blocks) : ValidTokens(doc.blocks[i].text) = {}
    /\ ValidTokens(get_text(doc)) = {}

\* NoTokenValidates, tabulated over the pages
NoValidToken == [doc \in Docs |-> NoTokenValidates(doc)]

C8_EmptyListIsSaved ==
    (prog = "main" /\ pc = "returned" /\ ~Falsy(html_content)
        /\ NoValidToken[html_content])
        => /\ telecom_ips = <<>>
           /\ calls = <<"fetch_ips_data", "parse_telecom_ips", "save_ips_to_file",
                        "cleanup">>
           /\ result = success
           /\ result <=> io = "written"
           /\ io = "written" =>
                 files.txt = <<>> /\ files.json = [total_ips |-> 0, ips |-> <<>>]

\* a page with a rejected token only, parsed without error and saved
C8_Witness ==
    /\ prog = "main" /\ pc = "returned" /\ ~Falsy(html_content)
    /\ NoValidToken[html_content]
    /\ AllTokens(html_content) # {}
    /\ ~parse_log.raised
    /\ result = TRUE
    /\ files.txt = <<>>

(* C9: every entry of the list fetch_ip.fetch_telecom_ips writes is a      *)
(* usable IPv4 address.                                                    *)
C9_TableOnlyEntriesUsable ==
    (prog = "fetch_ip" /\ pc = "returned") =>
        \A i \in 1..Len(files.china) : Usable(files.china[i])

(* C10: run() executes cleanup() before it returns, on every path; when    *)
(* the fetch fails it returns False without parsing or saving, and the     *)
(* output files are as they were.                                          *)
C10_CleanupBeforeReturn ==
    (prog = "main" /\ pc = "returned") =>
        /\ calls # <<>> /\ calls[Len(calls)] = "cleanup"
        /\ driver # "open"
        /\ Falsy(html_content) =>
              /\ result = FALSE
              /\ "parse_telecom_ips" \notin Range(calls)
              /\ "save_ips_to_file" \notin Range(calls)
              /\ files = OldFiles

\* the page could not be loaded in a started browser: run() returned False
\* after closing it
C10_Witness ==
    /\ prog = "main" /\ pc = "returned"
    /\ Falsy(html_content)
    /\ driver = "quit"
    /\ result = FALSE

=============================================================================
